---- MODULE Spec2Model ----
(***************************************************************************)
(* The Oboard MCP server: the OboardClient (reference cache of cycles and  *)
(* teams, cycle and team resolution, date formatting, the elements query,  *)
(* response normalisation, error classification) and the OKR tool handler  *)
(* of server.ts that drives it.                                            *)
(*                                                                         *)
(* Text that the code inspects character by character (cycle names, team   *)
(* names, the cycle and team parameters) is a sequence of one-character    *)
(* strings; the empty sequence stands for undefined and for '', which the  *)
(* code never tells apart (every use is a truthiness test).  Text that the *)
(* code only passes on or hands to Date is a TLA+ string, "" standing for  *)
(* undefined or ''.                                                        *)
(***************************************************************************)
EXTENDS Integers, Sequences, FiniteSets, TLC

\* Bounds of the model.
NumInvocations == 2
MaxTime == 2
TTL == 1

VARIABLES
  apiKey,            \* process.env.API_KEY ("" when missing)
  workspaceId,       \* process.env.WORKSPACE_ID ("" when missing)
  cacheTTL,          \* OboardClient.cacheTTL
  now,               \* Date.now(), in milliseconds
  cyclesCache,       \* OboardClient.cyclesCache
  teamsCache,        \* OboardClient.teamsCache
  cacheExpiry,       \* OboardClient.cacheExpiry
  origin,            \* which refresh wrote cyclesCache, teamsCache, cacheExpiry
  clientInitialized, \* main's clientInitialized
  pc,                \* where main (0) and each tool invocation stand
  filter,            \* the OKRSearchParams of each running invocation
  startNow,          \* loadCyclesAndTeams' local `now` of each refresh
  req,               \* the upstream request each one has in flight
  reply,             \* the elements reply an invocation received
  before,            \* the cache as it stood when each running refresh began
  outcome,           \* what the handler returned, until the caller has it
  op                 \* the method of the client each one is running

vars == <<apiKey, workspaceId, cacheTTL, now, cyclesCache, teamsCache,
          cacheExpiry, origin, clientInitialized, pc, filter, startNow,
          req, reply, before, outcome, op>>

Main == 0
Invocations == 1..NumInvocations
Tasks == {Main} \cup Invocations

-----------------------------------------------------------------------------
\* JavaScript values

\* undefined, for text held as a sequence of characters
Undefined == <<>>

\* NaN, for the numbers parseInt yields (never negative here: the text it is
\* given holds no sign)
NaN == 0 - 1

IsNaN(n) == n = NaN

\* undefined, for an element's numeric fields
NoNumber == 0 - 1

\* truthiness of text held as a sequence of characters
Truthy(s) == s # <<>>

\* truthiness of text held as a TLA+ string
TruthyString(s) == s # ""

TruthyNumber(n) == n # NoNumber /\ n # 0

LowerOf ==
  [c \in {"A","B","C","D","E","F","G","H","I","J","K","L","M","N","O","P","Q",
          "R","S","T","U","V","W","X","Y","Z"} |->
     CASE c = "A" -> "a" [] c = "B" -> "b" [] c = "C" -> "c" [] c = "D" -> "d"
       [] c = "E" -> "e" [] c = "F" -> "f" [] c = "G" -> "g" [] c = "H" -> "h"
       [] c = "I" -> "i" [] c = "J" -> "j" [] c = "K" -> "k" [] c = "L" -> "l"
       [] c = "M" -> "m" [] c = "N" -> "n" [] c = "O" -> "o" [] c = "P" -> "p"
       [] c = "Q" -> "q" [] c = "R" -> "r" [] c = "S" -> "s" [] c = "T" -> "t"
       [] c = "U" -> "u" [] c = "V" -> "v" [] c = "W" -> "w" [] c = "X" -> "x"
       [] c = "Y" -> "y" [] c = "Z" -> "z"]

\* String.prototype.toLowerCase
ToLowerCase(s) ==
  [i \in 1..Len(s) |-> IF s[i] \in DOMAIN LowerOf THEN LowerOf[s[i]] ELSE s[i]]

DigitChars == <<"0","1","2","3","4","5","6","7","8","9">>

IsDigit(c) == \E d \in 1..Len(DigitChars) : DigitChars[d] = c

DigitValue(c) == (CHOOSE d \in 1..Len(DigitChars) : DigitChars[d] = c) - 1

\* Number.prototype.toString, base 10, of a number >= 0
RECURSIVE NumberToString(_)
NumberToString(n) ==
  IF n < 10 THEN <<DigitChars[n + 1]>>
  ELSE Append(NumberToString(n \div 10), DigitChars[(n % 10) + 1])

\* String.prototype.split on a one-character separator
RECURSIVE Split(_, _)
Split(s, sep) ==
  IF \A i \in 1..Len(s) : s[i] # sep THEN <<s>>
  ELSE LET k == CHOOSE i \in 1..Len(s) :
                  s[i] = sep /\ \A j \in 1..(i - 1) : s[j] # sep
       IN <<SubSeq(s, 1, k - 1)>> \o Split(SubSeq(s, k + 1, Len(s)), sep)

\* a.name.split(sep)[index] || '0'   (index counted from 0, as in the code)
SplitPartOrZero(s, sep, index) ==
  LET parts == Split(s, sep)
  IN IF index + 1 <= Len(parts) /\ Truthy(parts[index + 1])
     THEN parts[index + 1] ELSE <<"0">>

\* parseInt(s, 10) of text without sign or leading blanks: the value of the
\* longest prefix of digits, NaN when s starts with no digit
RECURSIVE DigitsValue(_, _)
DigitsValue(s, acc) ==
  IF s = <<>> \/ ~IsDigit(Head(s)) THEN acc
  ELSE DigitsValue(Tail(s), acc * 10 + DigitValue(Head(s)))

ParseInt(s) == IF s = <<>> \/ ~IsDigit(Head(s)) THEN NaN ELSE DigitsValue(s, 0)

-----------------------------------------------------------------------------
\* The values the environment supplies: configuration, upstream answers and
\* the parameters of a tool call

Str2023Q4 == <<"2","0","2","3","-","Q","4">>
Str2024Q1 == <<"2","0","2","4","-","Q","1">>
Str2024Q2 == <<"2","0","2","4","-","Q","2">>
Str2024q1 == <<"2","0","2","4","-","q","1">>
Str2099Q9 == <<"2","0","9","9","-","Q","9">>
StrCurrent == <<"c","u","r","r","e","n","t">>
StrCURRENT == <<"C","U","R","R","E","N","T">>
StrPrevious == <<"p","r","e","v","i","o","u","s">>
StrPrevIous == <<"P","r","e","v","I","o","u","s">>
StrAll == <<"a","l","l">>
StrALL == <<"A","L","L">>
StrSales == <<"S","a","l","e","s">>
Strsales == <<"s","a","l","e","s">>
StrSal == <<"S","a","l">>
StrOps == <<"O","p","s">>
StrOPS == <<"O","P","S">>

\* GET /v1/intervals: the entries of data.data
IntervalA == [id |-> 7, name |-> Str2023Q4]
IntervalB == [id |-> 12, name |-> Str2024Q1]
IntervalC == [id |-> 3, name |-> Str2024Q2]

IntervalLists ==
  { <<>>, <<IntervalB>>,
    <<IntervalA, IntervalB, IntervalC>>, <<IntervalA, IntervalC, IntervalB>>,
    <<IntervalB, IntervalA, IntervalC>>, <<IntervalB, IntervalC, IntervalA>>,
    <<IntervalC, IntervalA, IntervalB>>, <<IntervalC, IntervalB, IntervalA>> }

\* a cycle that upstream names outside the pattern YYYY-Q#
StrAnnual == <<"A","n","n","u","a","l">>

IntervalAnnual == [id |-> 20, name |-> StrAnnual]

MixedIntervalLists ==
  { <<IntervalAnnual, IntervalB>>, <<IntervalB, IntervalAnnual>> }

\* GET /v1/groups: the entries of data.data
GroupSales == [id |-> 5, name |-> StrSales]
GroupOps == [id |-> 6, name |-> StrOps]

GroupLists == { <<>>, <<GroupSales>>, <<GroupSales, GroupOps>> }

\* GET /v3/elements: elements (the fields the client reads and the claims
\* are about; name, description, displayId, levelName and customFields are
\* copied through unread and left out)
ChildKR == [id |-> 201, typeId |-> 2, progress |-> 40]
ChildOther == [id |-> 202, typeId |-> 4, progress |-> 10]

ElementSales ==
  [id |-> 101, typeId |-> 1, grade |-> 80, currentValue |-> NoNumber,
   groups |-> <<StrSales>>, teams |-> <<>>, intervalName |-> "2024-Q1",
   children |-> <<ChildKR, ChildOther>>]
ElementOps ==
  [id |-> 102, typeId |-> 1, grade |-> 50, currentValue |-> NoNumber,
   groups |-> <<>>, teams |-> <<StrOps>>, intervalName |-> "2024-Q2",
   children |-> <<>>, status |-> "On Track"]
Elementsales ==
  [id |-> 103, typeId |-> 1, grade |-> NoNumber, currentValue |-> NoNumber,
   groups |-> <<Strsales, StrOps>>, teams |-> <<>>, intervalName |-> "",
   children |-> <<>>]
ElementKR ==
  [id |-> 104, typeId |-> 4, grade |-> NoNumber, currentValue |-> 70,
   groups |-> <<StrSales>>, teams |-> <<>>, intervalName |-> "2024-Q1",
   children |-> <<>>]

ElementLowKR ==
  [id |-> 105, typeId |-> 4, grade |-> 90, currentValue |-> 39,
   groups |-> <<>>, teams |-> <<StrOps>>, intervalName |-> "2024-Q2",
   children |-> <<ChildKR>>, status |-> "On Track"]
ElementTask ==
  [id |-> 106, typeId |-> 3, grade |-> 40, currentValue |-> NoNumber,
   groups |-> <<StrSales>>, teams |-> <<>>, intervalName |-> "2024-Q1",
   children |-> <<>>]

ElementLists ==
  { <<>>, <<ElementSales, ElementOps, Elementsales>>, <<ElementKR>>,
    <<ElementOps, ElementKR, ElementSales>>,
    <<ElementLowKR, ElementTask, ElementKR>> }

ElementNearTrack ==
  [id |-> 107, typeId |-> 1, grade |-> 69, currentValue |-> 80,
   groups |-> <<StrSales>>, teams |-> <<>>, intervalName |-> "2024-Q1",
   children |-> <<ChildKR>>]

\* GET /v3/elements/{id}: the element in data.data
OKRElements ==
  {ElementSales, ElementOps, Elementsales, ElementKR, ElementTask,
   ElementNearTrack}

\* response.data of an answered request for one element: {data: element}, an
\* object without data, or null
OKRPayloads ==
  [shape : {"envelope"}, element : OKRElements]
    \cup [shape : {"object", "null"}, element : {<<>>}]

OKRIds == {"101", "999"}

\* response.data of an answered elements request: a bare array, {data: [...]},
\* an object without data, {data: "text"}, null, or a primitive
Payloads ==
  [shape : {"array", "envelope"}, elements : ElementLists]
    \cup [shape : {"object", "dataNotArray", "null", "primitive"},
          elements : {<<>>}]

\* How an upstream request ends: answered 2xx with a body, answered with an
\* error status, or not answered at all (network failure, axios timeout)
Answered(body) == [ok |-> TRUE, status |-> 200, data |-> body]

Failed(status) == [ok |-> FALSE, status |-> status, data |-> <<>>]

FailureStatuses == {401, 403, 404, 429, 500, NoNumber}

Failures == {Failed(s) : s \in FailureStatuses}

IntervalReplies == {Answered(l) : l \in IntervalLists} \cup Failures

GroupReplies == {Answered(l) : l \in GroupLists} \cup Failures

ElementReplies == {Answered(b) : b \in Payloads} \cup Failures

OKRReplies == {Answered(b) : b \in OKRPayloads} \cup Failures

\* OKRSearchParams
NoFilter ==
  [searchString |-> "", startDateFrom |-> "", startDateTo |-> "",
   dueDateFrom |-> "", dueDateTo |-> "", cycle |-> <<>>, team |-> <<>>]

DateFields == {"startDateFrom", "startDateTo", "dueDateFrom", "dueDateTo"}

DateTexts == {"", "2023-08-04", "not-a-date"}

CycleTexts ==
  {<<>>, StrCurrent, StrCURRENT, StrPrevIous, StrALL, Str2024q1, Str2099Q9}

TeamTexts == {<<>>, Strsales, StrSal, StrOPS}

AllFilters ==
  [searchString : {"", "growth"}, startDateFrom : DateTexts,
   startDateTo : DateTexts, dueDateFrom : DateTexts, dueDateTo : DateTexts,
   cycle : CycleTexts, team : TeamTexts]

-----------------------------------------------------------------------------
\* OboardClient: the pure parts

\* (response.data.data || []).map(x => ({id: x.id.toString(), name: x.name}))
CacheEntries(list) ==
  [i \in 1..Len(list) |-> [id |-> NumberToString(list[i].id),
                           name |-> list[i].name]]

\* new Date(dateStr).getTime(), in seconds; Node's date parser, tabulated on
\* the date texts of the model
DateGetTime(dateStr) ==
  CASE dateStr = "2023-08-04" -> 1691107200
    [] OTHER -> NaN

\* Date.prototype.toISOString of the instants above
ToISOString(time) ==
  CASE time = 1691107200 -> "2023-08-04T00:00:00.000Z"

\* (a formatDateString that would pass every text on)
FormatDateStringDropsNothing(dateStr) == dateStr

FormatDateString(dateStr) ==
  IF ~TruthyString(dateStr) THEN ""
  ELSE IF IsNaN(DateGetTime(dateStr)) THEN ""
  ELSE ToISOString(DateGetTime(dateStr))

\* x - y in JavaScript; a NaN result is what Array.prototype.sort takes as +0
Subtract(x, y) == IF IsNaN(x) \/ IsNaN(y) THEN 0 ELSE x - y

\* (a comparator that would put the oldest cycle first)
CompareCyclesAscending(a, b) ==
  LET aYear == ParseInt(SplitPartOrZero(a.name, "-", 0))
      bYear == ParseInt(SplitPartOrZero(b.name, "-", 0))
      aQuarter == ParseInt(SplitPartOrZero(a.name, "Q", 1))
      bQuarter == ParseInt(SplitPartOrZero(b.name, "Q", 1))
  IN IF aYear # bYear THEN Subtract(aYear, bYear)
     ELSE Subtract(aQuarter, bQuarter)

\* the comparator of sortedCycles
CompareCycles(a, b) ==
  LET aYear == ParseInt(SplitPartOrZero(a.name, "-", 0))
      bYear == ParseInt(SplitPartOrZero(b.name, "-", 0))
      aQuarter == ParseInt(SplitPartOrZero(a.name, "Q", 1))
      bQuarter == ParseInt(SplitPartOrZero(b.name, "Q", 1))
  IN IF aYear # bYear \/ IsNaN(aYear) \/ IsNaN(bYear)  \* NaN !== NaN
     THEN Subtract(bYear, aYear)
     ELSE Subtract(bQuarter, aQuarter)

\* Array.prototype.sort (stable): x goes before the first entry that the
\* comparator puts after it
InsertCycle(sorted, x) ==
  LET later == {i \in 1..Len(sorted) : CompareCycles(sorted[i], x) > 0}
      k == IF later = {} THEN Len(sorted) + 1
           ELSE CHOOSE i \in later : \A j \in later : i <= j
  IN SubSeq(sorted, 1, k - 1) \o <<x>> \o SubSeq(sorted, k, Len(sorted))

RECURSIVE SortCycles(_)
SortCycles(cycles) ==
  IF cycles = <<>> THEN <<>>
  ELSE InsertCycle(SortCycles(SubSeq(cycles, 1, Len(cycles) - 1)),
                   cycles[Len(cycles)])

\* (a find that would compare names as they are)
FindIdByExactName(entries, name) ==
  LET hits == {i \in 1..Len(entries) : entries[i].name = name}
  IN IF hits = {} THEN Undefined
     ELSE entries[CHOOSE i \in hits : \A j \in hits : i <= j].id

\* Array.prototype.find(e => e.name.toLowerCase() === name.toLowerCase())?.id
FindIdByName(entries, name) ==
  LET hits == {i \in 1..Len(entries) :
                 ToLowerCase(entries[i].name) = ToLowerCase(name)}
  IN IF hits = {} THEN Undefined
     ELSE entries[CHOOSE i \in hits : \A j \in hits : i <= j].id

\* (a find that would take the name as a prefix)
FindIdByNamePrefix(entries, name) ==
  LET hits == {i \in 1..Len(entries) :
                 /\ Len(name) <= Len(entries[i].name)
                 /\ ToLowerCase(SubSeq(entries[i].name, 1, Len(name)))
                      = ToLowerCase(name)}
  IN IF hits = {} THEN Undefined
     ELSE entries[CHOOSE i \in hits : \A j \in hits : i <= j].id

ResolveCycleToIntervalId(cycle, cycles) ==
  IF ~Truthy(cycle) THEN Undefined
  ELSE IF Len(cycles) = 0 THEN Undefined
  ELSE LET sortedCycles == SortCycles(cycles)
       IN IF ToLowerCase(cycle) = StrCurrent /\ Len(sortedCycles) > 0
            THEN sortedCycles[1].id
          ELSE IF ToLowerCase(cycle) = StrPrevious /\ Len(sortedCycles) > 1
            THEN sortedCycles[2].id
          ELSE IF ToLowerCase(cycle) = StrAll THEN Undefined
          ELSE FindIdByName(cycles, cycle)

\* (a resolveTeamToId that would match on a prefix)
ResolveTeamByPrefix(teamName, teams) ==
  IF ~Truthy(teamName) THEN Undefined
  ELSE IF Len(teams) = 0 THEN Undefined
  ELSE FindIdByNamePrefix(teams, teamName)

ResolveTeamToId(teamName, teams) ==
  IF ~Truthy(teamName) THEN Undefined
  ELSE IF Len(teams) = 0 THEN Undefined
  ELSE FindIdByName(teams, teamName)

\* (a filterByTeam that would not consult the cached teams)
FilterByTeamIgnoringCache(okrs, teamName, teams) ==
  LET SameTeam(okr) == ToLowerCase(okr.team) = ToLowerCase(teamName)
  IN IF ~Truthy(teamName) THEN okrs ELSE SelectSeq(okrs, SameTeam)

FilterByTeam(okrs, teamName, teams) ==
  LET SameTeam(okr) == ToLowerCase(okr.team) = ToLowerCase(teamName)
  IN IF ~Truthy(teamName) THEN okrs
     ELSE IF ~Truthy(ResolveTeamToId(teamName, teams)) THEN <<>>
     ELSE SelectSeq(okrs, SameTeam)

\* (a getStatusFromGrade that would leave the thresholds out)
GetStatusAboveGrade(grade) ==
  IF grade > 70 THEN "On Track"
  ELSE IF grade > 40 THEN "Behind"
  ELSE "At Risk"

GetStatusFromGrade(grade) ==
  IF grade >= 70 THEN "On Track"
  ELSE IF grade >= 40 THEN "Behind"
  ELSE "At Risk"

\* a || b on an element's numeric fields
OrNumber(a, b) == IF TruthyNumber(a) THEN a ELSE b

ExtractKeyResults(children) ==
  LET IsKeyResult(kr) == kr.typeId = 2
      found == SelectSeq(children, IsKeyResult)
  IN [i \in 1..Len(found) |->
        [id |-> NumberToString(found[i].id),
         progress |-> OrNumber(found[i].progress, 0)]]

\* Array.prototype.filter is SelectSeq.

\* the object transformElementsToOKRs builds for a promoted key result
PromotedOKR(kr) ==
  [id |-> NumberToString(kr.id),
   status |-> GetStatusFromGrade(OrNumber(kr.currentValue, 0)),
   cycle |-> kr.intervalName,
   team |-> IF Len(kr.groups) > 0 THEN kr.groups[1] ELSE <<>>,
   grade |-> kr.currentValue,
   keyResults |-> <<>>]

\* the object transformElementsToOKRs builds in standard processing
StandardOKR(element) ==
  [id |-> NumberToString(element.id),
   status |-> GetStatusFromGrade(
                OrNumber(OrNumber(element.grade, element.currentValue), 0)),
   cycle |-> element.intervalName,
   team |-> IF Len(element.groups) > 0 THEN element.groups[1]
            ELSE IF Len(element.teams) > 0 THEN element.teams[1] ELSE <<>>,
   grade |-> OrNumber(element.grade, element.currentValue),
   keyResults |-> ExtractKeyResults(element.children)]

\* (a transformElementsToOKRs that would never promote key results)
TransformWithoutPromotion(elements) ==
  [i \in 1..Len(elements) |-> StandardOKR(elements[i])]

TransformElementsToOKRs(elements) ==
  LET IsObjective(e) == e.typeId = 1
      IsKeyResult(e) == e.typeId = 4
      okrs == SelectSeq(elements, IsObjective)
      keyResults == SelectSeq(elements, IsKeyResult)
  IN IF Len(elements) = 0 THEN <<>>
     ELSE IF Len(okrs) = 0 /\ Len(keyResults) > 0
       THEN [i \in 1..Len(keyResults) |-> PromotedOKR(keyResults[i])]
     ELSE [i \in 1..Len(elements) |-> StandardOKR(elements[i])]

-----------------------------------------------------------------------------
\* OboardClient.searchOKRs: the request, the reading of the reply, the errors

NoRequest == [path |-> "none"]

IntervalsRequestPosted ==
  [method |-> "POST", path |-> "/v1/intervals",
   params |-> [workspaceId |-> workspaceId]]

IntervalsRequest ==
  [method |-> "GET", path |-> "/v1/intervals",
   params |-> [workspaceId |-> workspaceId]]

GroupsRequest ==
  [method |-> "GET", path |-> "/v1/groups",
   params |-> [workspaceId |-> workspaceId]]

\* the parameters of the params branch: a date that formats, a cycle that
\* resolves
RequestParams(f, cycles) ==
  LET intervalId == ResolveCycleToIntervalId(f.cycle, cycles)
      keys == {"workspaceIds"}
                \cup {d \in DateFields : TruthyString(FormatDateString(f[d]))}
                \cup (IF Truthy(intervalId) THEN {"intervalIds"} ELSE {})
  IN [k \in keys |->
        IF k = "workspaceIds" THEN workspaceId
        ELSE IF k = "intervalIds" THEN intervalId
        ELSE FormatDateString(f[k])]

\* the elements request searchOKRs sends for filter f
ElementsRequest(f, cycles) ==
  IF TruthyString(f.searchString)
  THEN [method |-> "GET", path |-> "/v3/elements",
        params |-> [workspaceIds |-> workspaceId,
                    searchString |-> f.searchString]]
  ELSE [method |-> "GET", path |-> "/v3/elements",
        params |-> RequestParams(f, cycles)]

\* What searchOKRs takes the elements of response.data to be, or that doing
\* so threw a TypeError.  With searchString, 'data' in response.data (in the
\* argument of the first logDebugInfo) throws on null and on a primitive;
\* without, response.data.data throws on null, and transformElementsToOKRs
\* calls filter on whatever truthy data holds.
ExtractElements(f, payload) ==
  IF TruthyString(f.searchString)
  THEN CASE payload.shape \in {"null", "primitive"} ->
              [threw |-> TRUE, elements |-> <<>>]
         [] payload.shape \in {"array", "envelope"} ->
              [threw |-> FALSE, elements |-> payload.elements]
         [] OTHER -> [threw |-> FALSE, elements |-> <<>>]
  ELSE CASE payload.shape \in {"null", "dataNotArray"} ->
              [threw |-> TRUE, elements |-> <<>>]
         [] payload.shape = "envelope" ->
              [threw |-> FALSE, elements |-> payload.elements]
         [] OTHER -> [threw |-> FALSE, elements |-> <<>>]

NoOutcome == [kind |-> "none", okrs |-> <<>>, error |-> "", status |-> NoNumber]

NotConnected ==
  [kind |-> "notConnected", okrs |-> <<>>, error |-> "", status |-> NoNumber]

Result(okrs) ==
  [kind |-> "result", okrs |-> okrs, error |-> "", status |-> NoNumber]

\* the stack property of an Error made in searchOKRs
StackTrace == "Error\n    at OboardClient.searchOKRs"

\* new Error(message), with the status of the upstream response it reports
Thrown(message, status) ==
  [message |-> message, status |-> status, stack |-> StackTrace]

\* (a catch that would return the stack)
HandlerCatchWithStack(thrown) ==
  [kind |-> "error", okrs |-> <<>>, error |-> thrown.stack,
   status |-> thrown.status]

\* the handler's catch: the text "Error searching OKRs: " and the error's
\* message; the stack goes to the log file only
HandlerCatch(thrown) ==
  [kind |-> "error", okrs |-> <<>>, error |-> thrown.message,
   status |-> thrown.status]

Error(message, status) == HandlerCatch(Thrown(message, status))

\* the catch of searchOKRs on an AxiosError
\* (a catch that would turn a failure into an empty result)
ClassifyAsEmptyResult(r) == Result(<<>>)

ClassifySearchError(r) ==
  CASE r.status = 401 -> Error("Authentication failed", r.status)
    [] r.status = 403 -> Error("Access forbidden", r.status)
    [] r.status = 404 -> Error("Resource not found", r.status)
    [] r.status = 429 -> Error("Rate limit exceeded", r.status)
    [] OTHER -> Error("API request failed", r.status)

\* what searchOKRs returns or throws once the elements request is answered
SearchOutcome(f, payload, teams) ==
  LET got == ExtractElements(f, payload)
  IN IF got.threw THEN Error("Failed to search OKRs", NoNumber)
     ELSE Result(FilterByTeam(TransformElementsToOKRs(got.elements),
                              f.team, teams))

-----------------------------------------------------------------------------
\* OboardClient.getOKR

OKRRequest(id) ==
  [method |-> "GET", path |-> "/v3/elements/:id", id |-> id,
   params |-> [workspaceIds |-> workspaceId]]

\* the OKR getOKR builds from response.data.data
OKRFromElement(element) ==
  [id |-> NumberToString(element.id),
   status |-> GetStatusFromGrade(element.grade),
   cycle |-> element.intervalName,
   team |-> IF Len(element.teams) > 0 THEN element.teams[1] ELSE <<>>,
   grade |-> element.grade,
   keyResults |-> ExtractKeyResults(element.children)]

Found(okr) ==
  [kind |-> "okr", okrs |-> <<okr>>, error |-> "", status |-> NoNumber]

\* an Error that a method of the client throws to its caller
Throws(message, status) ==
  [kind |-> "thrown", okrs |-> <<>>, error |-> message, status |-> status]

\* (a getOKR whose catch would have no case for 404)
GetOKROutcomeUnclassified(r) ==
  IF r.ok
  THEN IF r.data.shape = "envelope"
       THEN Found(OKRFromElement(r.data.element))
       ELSE Throws("Failed to get OKR", NoNumber)
  ELSE Throws("Failed to get OKR", r.status)

\* what getOKR returns or throws once its request has ended with r; without
\* an element in data.data, element.id is a TypeError
GetOKROutcome(r) ==
  IF r.ok
  THEN IF r.data.shape = "envelope"
       THEN Found(OKRFromElement(r.data.element))
       ELSE Throws("Failed to get OKR", NoNumber)
  ELSE IF r.status = 404 THEN Throws("OKR not found", r.status)
  ELSE Throws("Failed to get OKR", r.status)

-----------------------------------------------------------------------------
\* OboardClient.getCycles and getTeams

ListMethods == {"getCycles", "getTeams"}

\* (a getter that would return the other list)
ListedEntriesSwapped(method, cycles, teams) ==
  IF method = "getCycles" THEN teams ELSE cycles

\* return this.cyclesCache / return this.teamsCache
ListedEntries(method, cycles, teams) ==
  IF method = "getCycles" THEN cycles ELSE teams

Listed(entries) ==
  [kind |-> "list", okrs |-> <<>>, error |-> "", status |-> NoNumber,
   entries |-> entries]

\* the Error of the getter's catch, which does not look at the status
ListThrows(method) ==
  Throws(IF method = "getCycles" THEN "Failed to get OKR cycles"
         ELSE "Failed to get teams", NoNumber)

-----------------------------------------------------------------------------
\* The state machine

NoRefresh == 0 - 1

NoReply == [ok |-> FALSE, status |-> 0, data |-> <<>>]

NoSnapshot == [cycles |-> <<>>, teams |-> <<>>, expiry |-> 0]

CacheSnapshot ==
  [cycles |-> cyclesCache, teams |-> teamsCache, expiry |-> cacheExpiry]

\* the texts of CACHE_TTL, in seconds
CacheTTLTexts == {NumberToString(0), NumberToString(TTL)}

MsPerSecond == 1000

\* parseInt(process.env.CACHE_TTL || '3600', 10) * 1000
CacheTTLOf(text) ==
  ParseInt(IF Truthy(text) THEN text ELSE <<"3", "6", "0", "0">>) * MsPerSecond

TTLs == {CacheTTLOf(text) : text \in CacheTTLTexts}

Init ==
  /\ apiKey \in {"", "key"}
  /\ workspaceId \in {"", "ws"}
  /\ cacheTTL \in TTLs
  /\ now = 0
  /\ cyclesCache = <<>>
  /\ teamsCache = <<>>
  /\ cacheExpiry = 0
  /\ origin = [cycles |-> NoRefresh, teams |-> NoRefresh, expiry |-> NoRefresh]
  /\ clientInitialized = FALSE
  /\ pc = [t \in Tasks |-> IF t = Main THEN "start" ELSE "idle"]
  /\ filter = [t \in Tasks |-> NoFilter]
  /\ startNow = [t \in Tasks |-> 0]
  /\ req = [t \in Tasks |-> NoRequest]
  /\ reply = [t \in Tasks |-> NoReply]
  /\ before = [t \in Tasks |-> NoSnapshot]
  /\ outcome = [t \in Tasks |-> NoOutcome]
  /\ op = [t \in Tasks |-> IF t = Main THEN "initialize" ELSE "none"]

\* (a validity test that would hold at the expiry itself)
CacheValidAtExpiry ==
  Len(cyclesCache) > 0 /\ Len(teamsCache) > 0 /\ now <= cacheExpiry

\* (a validity test with the comparison turned round)
CacheValidAfterExpiry ==
  Len(cyclesCache) > 0 /\ Len(teamsCache) > 0 /\ now > cacheExpiry

\* the test that lets loadCyclesAndTeams return at once
CacheValid ==
  Len(cyclesCache) > 0 /\ Len(teamsCache) > 0 /\ now < cacheExpiry

\* (a handler that would test the configuration, not clientInitialized)
ConnectionConfigured == apiKey # "" /\ workspaceId # ""

\* (a handler that would not test clientInitialized)
ConnectionAssumed == TRUE

\* the handler's test of clientInitialized
ConnectionPossible == clientInitialized

\* main: the configuration check and client.initialize(), up to its first
\* await
Startup ==
  /\ pc[Main] = "start"
  /\ IF TruthyString(apiKey) /\ TruthyString(workspaceId)
     THEN IF CacheValid
          THEN /\ clientInitialized' = TRUE
               /\ pc' = [pc EXCEPT ![Main] = "serving"]
               /\ UNCHANGED <<req, startNow, before>>
          ELSE /\ pc' = [pc EXCEPT ![Main] = "fetchCycles"]
               /\ req' = [req EXCEPT ![Main] = IntervalsRequest]
               /\ startNow' = [startNow EXCEPT ![Main] = now]
               /\ before' = [before EXCEPT ![Main] = CacheSnapshot]
               /\ UNCHANGED clientInitialized
     ELSE /\ pc' = [pc EXCEPT ![Main] = "serving"]
          /\ UNCHANGED <<clientInitialized, req, startNow, before>>
  /\ UNCHANGED <<apiKey, workspaceId, cacheTTL, now, cyclesCache, teamsCache,
                 cacheExpiry, origin, filter, reply, outcome,
                 op>>

\* Date.now() moves on, a second at a time
Tick ==
  /\ now < MaxTime * MsPerSecond
  /\ now' = now + MsPerSecond
  /\ UNCHANGED <<apiKey, workspaceId, cacheTTL, cyclesCache, teamsCache,
                 cacheExpiry, origin, clientInitialized, pc, filter, startNow,
                 req, reply, before, outcome,
                 op>>

\* The OKR tool handler is called with params f, once the server is connected:
\* the clientInitialized check, then searchOKRs up to its first upstream
\* request
Invoke(t, f) ==
  /\ pc[Main] = "serving"
  /\ pc[t] = "idle"
  /\ filter' = [filter EXCEPT ![t] = f]
  /\ IF ~ConnectionPossible
     THEN /\ pc' = [pc EXCEPT ![t] = "returned"]
          /\ outcome' = [outcome EXCEPT ![t] = NotConnected]
          /\ UNCHANGED <<req, startNow, before>>
     ELSE IF CacheValid
     THEN /\ pc' = [pc EXCEPT ![t] = "querying"]
          /\ req' = [req EXCEPT ![t] = ElementsRequest(f, cyclesCache)]
          /\ UNCHANGED <<outcome, startNow, before>>
     ELSE /\ pc' = [pc EXCEPT ![t] = "fetchCycles"]
          /\ req' = [req EXCEPT ![t] = IntervalsRequest]
          /\ startNow' = [startNow EXCEPT ![t] = now]
          /\ before' = [before EXCEPT ![t] = CacheSnapshot]
          /\ UNCHANGED outcome
  /\ op' = [op EXCEPT ![t] = IF ConnectionPossible THEN "searchOKRs"
                              ELSE "none"]
  /\ UNCHANGED <<apiKey, workspaceId, cacheTTL, now, cyclesCache, teamsCache,
                 cacheExpiry, origin, clientInitialized, reply>>

\* getCycles() or getTeams() is called on the client: loadCyclesAndTeams up
\* to its first await, and the return when the cache is valid
ListCall(t, method) ==
  /\ pc[t] = "idle"
  /\ op' = [op EXCEPT ![t] = method]
  /\ IF CacheValid
     THEN /\ pc' = [pc EXCEPT ![t] = "returned"]
          /\ outcome' = [outcome EXCEPT
                           ![t] = Listed(ListedEntries(method, cyclesCache,
                                                       teamsCache))]
          /\ UNCHANGED <<req, startNow, before>>
     ELSE /\ pc' = [pc EXCEPT ![t] = "fetchCycles"]
          /\ req' = [req EXCEPT ![t] = IntervalsRequest]
          /\ startNow' = [startNow EXCEPT ![t] = now]
          /\ before' = [before EXCEPT ![t] = CacheSnapshot]
          /\ UNCHANGED outcome
  /\ UNCHANGED <<apiKey, workspaceId, cacheTTL, now, cyclesCache, teamsCache,
                 cacheExpiry, origin, clientInitialized, filter, reply>>

\* (a loadCyclesAndTeams whose rejection nobody would catch: the caller
\* would stay where it is, with no request in flight)
LoadFailedUncaught(t, r) ==
  /\ req' = [req EXCEPT ![t] = NoRequest]
  /\ pc' = [pc EXCEPT ![t] = "hung"]
  /\ UNCHANGED <<startNow, before, outcome, clientInitialized>>

\* loadCyclesAndTeams threw in task t: main keeps clientInitialized false,
\* searchOKRs classifies the failure, a getter rethrows it under its own
\* message
LoadFailed(t, r) ==
  /\ req' = [req EXCEPT ![t] = NoRequest]
  /\ startNow' = [startNow EXCEPT ![t] = 0]
  /\ before' = [before EXCEPT ![t] = NoSnapshot]
  /\ IF t = Main
     THEN /\ pc' = [pc EXCEPT ![t] = "serving"]
          /\ UNCHANGED outcome
     ELSE /\ pc' = [pc EXCEPT ![t] = "returned"]
          /\ outcome' = [outcome EXCEPT
                           ![t] = IF op[t] \in ListMethods
                                  THEN ListThrows(op[t])
                                  ELSE ClassifySearchError(r)]
  /\ UNCHANGED clientInitialized

\* GET /v1/intervals ends with r
IntervalsReply(t, r) ==
  /\ pc[t] = "fetchCycles"
  /\ IF r.ok
     THEN /\ cyclesCache' = CacheEntries(r.data)
          /\ origin' = [origin EXCEPT !.cycles = t]
          /\ req' = [req EXCEPT ![t] = GroupsRequest]
          /\ pc' = [pc EXCEPT ![t] = "fetchTeams"]
          /\ UNCHANGED <<outcome, clientInitialized, startNow, before>>
     ELSE /\ LoadFailed(t, r)
          /\ UNCHANGED <<cyclesCache, origin>>
  /\ UNCHANGED <<apiKey, workspaceId, cacheTTL, now, teamsCache, cacheExpiry,
                 filter, reply,
                 op>>

\* GET /v1/groups ends with r; on success loadCyclesAndTeams is done, and
\* initialize returns to main, or searchOKRs goes on to its elements request
GroupsReply(t, r) ==
  /\ pc[t] = "fetchTeams"
  /\ IF r.ok
     THEN /\ teamsCache' = CacheEntries(r.data)
          /\ cacheExpiry' = startNow[t] + cacheTTL
          /\ origin' = [origin EXCEPT !.teams = t, !.expiry = t]
          /\ startNow' = [startNow EXCEPT ![t] = 0]
          /\ before' = [before EXCEPT ![t] = NoSnapshot]
          /\ IF t = Main
             THEN /\ clientInitialized' = TRUE
                  /\ pc' = [pc EXCEPT ![t] = "serving"]
                  /\ req' = [req EXCEPT ![t] = NoRequest]
                  /\ UNCHANGED outcome
             ELSE IF op[t] \in ListMethods
             THEN /\ pc' = [pc EXCEPT ![t] = "returned"]
                  /\ req' = [req EXCEPT ![t] = NoRequest]
                  /\ outcome' = [outcome EXCEPT
                                   ![t] = Listed(ListedEntries(
                                            op[t], cyclesCache,
                                            CacheEntries(r.data)))]
                  /\ UNCHANGED clientInitialized
             ELSE /\ pc' = [pc EXCEPT ![t] = "querying"]
                  /\ req' = [req EXCEPT
                               ![t] = ElementsRequest(filter[t], cyclesCache)]
                  /\ UNCHANGED <<clientInitialized, outcome>>
     ELSE /\ LoadFailed(t, r)
          /\ UNCHANGED <<teamsCache, cacheExpiry, origin>>
  /\ UNCHANGED <<apiKey, workspaceId, cacheTTL, now, cyclesCache, filter,
                 reply,
                 op>>

\* GET /v3/elements ends with r: normalisation and team filter, or the catch
ElementsReply(t, r) ==
  /\ pc[t] = "querying"
  /\ pc' = [pc EXCEPT ![t] = "returned"]
  /\ req' = [req EXCEPT ![t] = NoRequest]
  /\ reply' = [reply EXCEPT ![t] = r]
  /\ outcome' = [outcome EXCEPT
                   ![t] = IF r.ok
                          THEN SearchOutcome(filter[t], r.data, teamsCache)
                          ELSE ClassifySearchError(r)]
  /\ UNCHANGED <<apiKey, workspaceId, cacheTTL, now, cyclesCache, teamsCache,
                 cacheExpiry, origin, clientInitialized, filter, startNow,
                 before,
                 op>>

\* getOKR(id) is called on the client: it sends its request at once
GetOKR(t, id) ==
  /\ pc[t] = "idle"
  /\ pc' = [pc EXCEPT ![t] = "gettingOKR"]
  /\ req' = [req EXCEPT ![t] = OKRRequest(id)]
  /\ op' = [op EXCEPT ![t] = "getOKR"]
  /\ UNCHANGED <<apiKey, workspaceId, cacheTTL, now, cyclesCache, teamsCache,
                 cacheExpiry, origin, clientInitialized, filter, startNow,
                 reply, before, outcome>>

\* GET /v3/elements/{id} ends with r
GetOKRReply(t, r) ==
  /\ pc[t] = "gettingOKR"
  /\ pc' = [pc EXCEPT ![t] = "returned"]
  /\ req' = [req EXCEPT ![t] = NoRequest]
  /\ reply' = [reply EXCEPT ![t] = r]
  /\ outcome' = [outcome EXCEPT ![t] = GetOKROutcome(r)]
  /\ UNCHANGED <<apiKey, workspaceId, cacheTTL, now, cyclesCache, teamsCache,
                 cacheExpiry, origin, clientInitialized, filter, startNow,
                 before,
                 op>>

\* the protocol layer hands the handler's return value to the caller
Respond(t) ==
  /\ pc[t] = "returned"
  /\ pc' = [pc EXCEPT ![t] = "done"]
  /\ filter' = [filter EXCEPT ![t] = NoFilter]
  /\ reply' = [reply EXCEPT ![t] = NoReply]
  /\ outcome' = [outcome EXCEPT ![t] = NoOutcome]
  /\ op' = [op EXCEPT ![t] = "none"]
  /\ UNCHANGED <<apiKey, workspaceId, cacheTTL, now, cyclesCache, teamsCache,
                 cacheExpiry, origin, clientInitialized, startNow, req,
                 before>>

-----------------------------------------------------------------------------
\* Specifications

\* Overlapping tool invocations, with a few filters and upstream answers
FewFilters ==
  { NoFilter,
    [NoFilter EXCEPT !.team = Strsales],
    [NoFilter EXCEPT !.cycle = StrCurrent] }

FewIntervalReplies ==
  { Answered(<<>>), Answered(<<IntervalB>>),
    Answered(<<IntervalA, IntervalC, IntervalB>>), Failed(500) }

FewGroupReplies ==
  { Answered(<<>>), Answered(<<GroupSales>>),
    Answered(<<GroupSales, GroupOps>>), Failed(500) }

FewElementReplies ==
  { Answered([shape |-> "envelope",
              elements |-> <<ElementSales, ElementOps, Elementsales>>]),
    Failed(429) }

\* (overlapping invocations are run without the empty cycle list)
OverlapIntervalReplies == FewIntervalReplies \ {Answered(<<>>)}

Next ==
  \/ Startup
  \/ Tick
  \/ \E t \in Invocations, f \in FewFilters : Invoke(t, f)
  \/ \E t \in Tasks, r \in OverlapIntervalReplies : IntervalsReply(t, r)
  \/ \E t \in Tasks, r \in FewGroupReplies : GroupsReply(t, r)
  \/ \E t \in Invocations, r \in FewElementReplies : ElementsReply(t, r)
  \/ \E t \in Invocations : Respond(t)

Spec == Init /\ [][Next]_vars

\* One invocation at a time, as the tool layer of the reference deployment
\* runs them: invocation t starts when its predecessors are done
InTurn(t) == \A u \in Invocations : IF u < t THEN pc[u] = "done" ELSE pc[u] = "idle"

NextSeq ==
  \/ Startup
  \/ Tick
  \/ \E t \in Invocations, f \in FewFilters : InTurn(t) /\ Invoke(t, f)
  \/ \E t \in Tasks, r \in FewIntervalReplies : IntervalsReply(t, r)
  \/ \E t \in Tasks, r \in FewGroupReplies : GroupsReply(t, r)
  \/ \E t \in Invocations, r \in FewElementReplies : ElementsReply(t, r)
  \/ \E t \in Invocations : Respond(t)

SpecSeq == Init /\ [][NextSeq]_vars

\* One query after startup, over the filters that set at most MaxFields
\* fields and every answer to the lookups: what searchOKRs asks upstream
MaxFields == 2

SetFields(f) == {k \in DOMAIN f : f[k] # NoFilter[k]}

RequestFilters ==
  {f \in AllFilters : /\ Cardinality(SetFields(f)) <= MaxFields
                      /\ f.team \in {<<>>, Strsales}}

QueryTask == 1

AnyIntervalsOrDown == {Answered(l) : l \in IntervalLists} \cup {Failed(500)}

OneGroupOrDown == {Answered(<<GroupSales>>), Failed(500)}

NextRequest ==
  \/ Startup
  \/ \E f \in RequestFilters : Invoke(QueryTask, f)
  \/ \E t \in {Main, QueryTask}, r \in AnyIntervalsOrDown : IntervalsReply(t, r)
  \/ \E t \in {Main, QueryTask}, r \in OneGroupOrDown : GroupsReply(t, r)
  \/ \E r \in FewElementReplies : ElementsReply(QueryTask, r)
  \/ Respond(QueryTask)

SpecRequest == Init /\ [][NextRequest]_vars

\* Overlapping invocations at one clock value, over one good answer and one
\* failure of each request: the order of the steps of a search
TwoFilters == {NoFilter, [NoFilter EXCEPT !.team = Strsales]}

OneIntervalOrDown == {Answered(<<IntervalB>>), Failed(500)}

OneGroupOrTimeout == {Answered(<<GroupSales>>), Failed(NoNumber)}

NextOverlap ==
  \/ Startup
  \/ \E t \in Invocations, f \in TwoFilters : Invoke(t, f)
  \/ \E t \in Tasks, r \in OneIntervalOrDown : IntervalsReply(t, r)
  \/ \E t \in Tasks, r \in OneGroupOrTimeout : GroupsReply(t, r)
  \/ \E t \in Invocations, r \in FewElementReplies : ElementsReply(t, r)
  \/ \E t \in Invocations : Respond(t)

SpecOverlap == Init /\ [][NextOverlap]_vars

\* Overlapping invocations whose request in flight ends at some time: axios
\* answers, fails, or cuts the call off at its timeout
AxiosEnds(t) ==
  WF_vars(\/ \E r \in OneIntervalOrDown : IntervalsReply(t, r)
          \/ \E r \in OneGroupOrTimeout : GroupsReply(t, r)
          \/ \E r \in FewElementReplies : ElementsReply(t, r))

NextLive ==
  \/ Startup
  \/ \E t \in Invocations : Invoke(t, NoFilter)
  \/ \E t \in Tasks, r \in OneIntervalOrDown : IntervalsReply(t, r)
  \/ \E t \in Tasks, r \in OneGroupOrTimeout : GroupsReply(t, r)
  \/ \E t \in Invocations, r \in FewElementReplies : ElementsReply(t, r)
  \/ \E t \in Invocations : Respond(t)

SpecLive ==
  Init /\ [][NextLive]_vars /\ \A t \in Invocations : AxiosEnds(t)

\* Overlapping invocations as the clock moves, every lookup answered: the
\* refreshes all succeed
AnsweredIntervals ==
  {Answered(<<IntervalB>>), Answered(<<IntervalA, IntervalC, IntervalB>>)}

AnsweredGroups ==
  {Answered(<<GroupSales>>), Answered(<<GroupSales, GroupOps>>)}

NextRefresh ==
  \/ Startup
  \/ Tick
  \/ \E t \in Invocations : Invoke(t, NoFilter)
  \/ \E t \in Tasks, r \in AnsweredIntervals : IntervalsReply(t, r)
  \/ \E t \in Tasks, r \in AnsweredGroups : GroupsReply(t, r)
  \/ \E t \in Invocations, r \in FewElementReplies : ElementsReply(t, r)
  \/ \E t \in Invocations : Respond(t)

SpecRefresh == Init /\ [][NextRefresh]_vars

\* Overlapping calls of getCycles and getTeams after startup, at one clock
\* value: with a cacheTTL of 0 the cache has always expired
NextLists ==
  \/ Startup
  \/ \E t \in Invocations, method \in ListMethods :
       pc[Main] = "serving" /\ ListCall(t, method)
  \/ \E t \in Tasks, r \in OneIntervalOrDown : IntervalsReply(t, r)
  \/ \E t \in Tasks, r \in FewGroupReplies \ {Answered(<<>>)} :
       GroupsReply(t, r)
  \/ \E t \in Invocations : Respond(t)

SpecLists == Init /\ [][NextLists]_vars

\* One query after startup that names at most a cycle, over cycle lists with
\* and without names outside the pattern: what the cycle keywords resolve to
CycleFilters == {f \in AllFilters : SetFields(f) \subseteq {"cycle"}}

PatternOrMixedIntervals ==
  {Answered(l) : l \in IntervalLists \cup MixedIntervalLists}
    \cup {Failed(500)}

NextCycles ==
  \/ Startup
  \/ \E f \in CycleFilters : Invoke(QueryTask, f)
  \/ \E t \in {Main, QueryTask}, r \in PatternOrMixedIntervals :
       IntervalsReply(t, r)
  \/ \E t \in {Main, QueryTask}, r \in OneGroupOrDown : GroupsReply(t, r)
  \/ \E r \in FewElementReplies : ElementsReply(QueryTask, r)
  \/ Respond(QueryTask)

SpecCycles == Init /\ [][NextCycles]_vars

\* One query after startup, over the filter fields that the reading of the
\* reply depends on and every answer of the model: what searchOKRs returns
ResultFilters ==
  {f \in AllFilters : SetFields(f) \subseteq {"searchString", "team"}}

NextResult ==
  \/ Startup
  \/ \E f \in ResultFilters : Invoke(QueryTask, f)
  \/ \E t \in {Main, QueryTask}, r \in IntervalReplies : IntervalsReply(t, r)
  \/ \E t \in {Main, QueryTask}, r \in GroupReplies : GroupsReply(t, r)
  \/ \E r \in ElementReplies : ElementsReply(QueryTask, r)
  \/ Respond(QueryTask)

SpecResult == Init /\ [][NextResult]_vars

\* One call of the client after startup, a search or a getOKR, over every
\* answer of the model
NextClient ==
  \/ Startup
  \/ \E f \in ResultFilters : Invoke(QueryTask, f)
  \/ \E t \in {Main, QueryTask}, r \in IntervalReplies : IntervalsReply(t, r)
  \/ \E t \in {Main, QueryTask}, r \in GroupReplies : GroupsReply(t, r)
  \/ \E r \in ElementReplies : ElementsReply(QueryTask, r)
  \/ \E id \in OKRIds : GetOKR(QueryTask, id)
  \/ \E r \in OKRReplies : GetOKRReply(QueryTask, r)
  \/ Respond(QueryTask)

SpecClient == Init /\ [][NextClient]_vars

-----------------------------------------------------------------------------
\* Properties of the reference cache

\* the step in which loadCyclesAndTeams throws in task t
RefreshFails(t) ==
  /\ pc[t] \in {"fetchCycles", "fetchTeams"}
  /\ IF t = Main THEN pc'[t] = "serving" /\ ~clientInitialized'
                 ELSE pc'[t] = "returned"

\* C1: when the cycles fetch or the teams fetch of a tool invocation's
\* refresh fails, the invocation fails and the cache's cycles, teams and
\* expiry are exactly what they were when its refresh began (invocations one
\* at a time)
C1_FailedRefreshLeavesCache ==
  [][\A t \in Invocations :
       RefreshFails(t) =>
         /\ CacheSnapshot' = before[t]
         /\ outcome'[t].kind = "error"]_vars

RefreshInFlight(t) == pc[t] \in {"fetchCycles", "fetchTeams"}

\* cycles, teams and expiry were all written by one refresh, which has then
\* completed (the expiry is its last write), or are all initial
OneRefresh == origin.cycles = origin.teams /\ origin.teams = origin.expiry

\* the step in which invocation t reads the cache: the validity test at the
\* head of loadCyclesAndTeams, or filterByTeam after the elements reply
ReadsCache(t) ==
  \/ pc[t] = "idle" /\ pc'[t] \in {"querying", "fetchCycles"}
  \/ pc[t] = "querying" /\ pc'[t] = "returned" /\ reply'[t].ok

\* C2: an invocation that reads the cache while another task's refresh is in
\* flight sees cycles, teams and expiry of one and the same completed refresh,
\* or all three initial
C2_OverlappingReaderSeesOneRefresh ==
  [][\A t \in Invocations :
       (ReadsCache(t) /\ \E u \in Tasks \ {t} : RefreshInFlight(u))
         => OneRefresh]_vars

\* the call before invocation t's: initialize for the first, else the
\* invocation before it
Predecessor(t) == t - 1

\* invocation t's loadCyclesAndTeams has sent its intervals request although
\* the call before it refreshed the cache and t's clock is before the expiry
\* that refresh set
RefreshesWithinTTL(t) ==
  /\ pc[t] = "fetchCycles"
  /\ origin.expiry = Predecessor(t)
  /\ startNow[t] < cacheExpiry

\* C3 as stated: of two calls in sequence whose clocks are before the expiry
\* the first one set, the second sends no lookup request, whatever upstream
\* answered the first, empty lists included
C3_SecondCallWithinTTLNeverFetches ==
  \A t \in Invocations : ~RefreshesWithinTTL(t)

\* C3: of two calls in sequence, the first of which refreshed the cache with
\* a non-empty cycles list and a non-empty teams list, the second sends no
\* lookup request when its clock is before the expiry the first one set
C3_SecondCallWithinTTLOfPopulatedCache ==
  \A t \in Invocations :
    (Len(cyclesCache) > 0 /\ Len(teamsCache) > 0) => ~RefreshesWithinTTL(t)

\* an invocation went straight to its elements request on the cache its
\* predecessor filled
C3_SecondCallSkippedRefresh ==
  \E t \in Invocations :
    /\ pc[t] = "querying"
    /\ origin.cycles = Predecessor(t)
    /\ origin.expiry = Predecessor(t)
    /\ Len(cyclesCache) > 0 /\ Len(teamsCache) > 0
    /\ now < cacheExpiry

\* callers reach the cache once the server is connected with an initialized
\* client
Observable == pc[Main] = "serving" /\ clientInitialized

\* C4: in every state a caller can observe, cycles and teams are both
\* non-empty with the expiry later than the clock, or both empty (here with a
\* positive time-to-live)
C4_PopulatedAndFreshOrEmpty ==
  (Observable /\ cacheTTL > 0) =>
    \/ Len(cyclesCache) > 0 /\ Len(teamsCache) > 0 /\ cacheExpiry > now
    \/ Len(cyclesCache) = 0 /\ Len(teamsCache) = 0

Unconfigured == apiKey = "" \/ workspaceId = ""

\* C5: without the API token or the workspace id no task ever has an upstream
\* request in flight, and every invocation is answered "not connected"
C5_UnconfiguredNeverAsksUpstream ==
  Unconfigured =>
    \A t \in Tasks :
      /\ req[t] = NoRequest
      /\ pc[t] \notin {"fetchCycles", "fetchTeams", "querying"}
      /\ (t \in Invocations /\ pc[t] = "returned") => outcome[t] = NotConnected

C5_UnconfiguredQueryRejected ==
  /\ Unconfigured
  /\ \E t \in Invocations : pc[t] = "returned" /\ outcome[t] = NotConnected

-----------------------------------------------------------------------------
\* Properties of the team filter

\* invocation t has its answer, made from an elements reply upstream answered
AnsweredFromReply(t) == pc[t] = "returned" /\ reply[t].ok

\* the reply carried a list of elements that searchOKRs could read
ReadableReply(t) == reply[t].data.shape \in {"array", "envelope"}

CachedTeamNamed(name) ==
  \E i \in 1..Len(teamsCache) :
    ToLowerCase(teamsCache[i].name) = ToLowerCase(name)

\* C6: a team parameter that equals no cached team name, ignoring case, gives
\* the empty result whatever the reply holds, objectives of that very team
\* included
C6_UnknownTeamGivesEmptyResult ==
  \A t \in Invocations :
    (AnsweredFromReply(t) /\ Truthy(filter[t].team)
       /\ ~CachedTeamNamed(filter[t].team)) =>
      /\ outcome[t].okrs = <<>>
      /\ ReadableReply(t) => outcome[t].kind = "result"

C6_UnknownTeamWithItsObjectives ==
  \E t \in Invocations :
    /\ AnsweredFromReply(t)
    /\ filter[t].team = StrOPS
    /\ Len(teamsCache) > 0
    /\ ~CachedTeamNamed(StrOPS)
    /\ reply[t].data.shape = "envelope"
    /\ \E i \in 1..Len(reply[t].data.elements) :
         reply[t].data.elements[i] = ElementOps
    /\ outcome[t] = Result(<<>>)

\* the normalized objectives of the reply invocation t received
Normalized(t) ==
  TransformElementsToOKRs(ExtractElements(filter[t], reply[t].data).elements)

\* the objectives of okrs whose team is name, ignoring case, in their order
RECURSIVE OfTeam(_, _)
OfTeam(okrs, name) ==
  IF okrs = <<>> THEN <<>>
  ELSE LET rest == OfTeam(Tail(okrs), name)
       IN IF ToLowerCase(Head(okrs).team) = ToLowerCase(name)
          THEN <<Head(okrs)>> \o rest
          ELSE rest

\* part is found inside whole, ignoring case, and is shorter
ProperSubstring(part, whole) ==
  /\ Len(part) < Len(whole)
  /\ \E i \in 1..(Len(whole) - Len(part) + 1) :
       ToLowerCase(SubSeq(whole, i, i + Len(part) - 1)) = ToLowerCase(part)

\* C7: a team parameter that equals a cached team name, ignoring case, gives
\* exactly the normalized objectives of that team name, ignoring case, in
\* their order; a parameter that is only a proper substring of cached team
\* names resolves to no team
C7_KnownTeamGivesItsObjectives ==
  \A t \in Invocations :
    Truthy(filter[t].team) =>
      /\ (AnsweredFromReply(t) /\ ReadableReply(t)
            /\ CachedTeamNamed(filter[t].team)) =>
           outcome[t] = Result(OfTeam(Normalized(t), filter[t].team))
      /\ (~CachedTeamNamed(filter[t].team)
            /\ \E i \in 1..Len(teamsCache) :
                 ProperSubstring(filter[t].team, teamsCache[i].name)) =>
           ResolveTeamToId(filter[t].team, teamsCache) = Undefined

C7_KnownTeamInAnotherCase ==
  \E t \in Invocations :
    /\ AnsweredFromReply(t)
    /\ filter[t].team = Strsales
    /\ CachedTeamNamed(Strsales)
    /\ Len(Normalized(t)) = 3
    /\ Len(outcome[t].okrs) = 2
    /\ outcome[t].okrs[1].team = StrSales
    /\ outcome[t].okrs[2].team = Strsales

-----------------------------------------------------------------------------
\* Properties of the elements request

\* YYYY-Q#
IsPatternName(name) ==
  /\ Len(name) = 7
  /\ \A i \in {1, 2, 3, 4, 7} : IsDigit(name[i])
  /\ name[5] = "-"
  /\ name[6] = "Q"

YearOf(name) ==
  DigitValue(name[1]) * 1000 + DigitValue(name[2]) * 100
    + DigitValue(name[3]) * 10 + DigitValue(name[4])

QuarterOf(name) == DigitValue(name[7])

LaterCycle(a, b) ==
  \/ YearOf(a) > YearOf(b)
  \/ YearOf(a) = YearOf(b) /\ QuarterOf(a) > QuarterOf(b)

\* the ids of the cached cycles that exactly rank cached cycles are later than
IdsAtRank(rank) ==
  {cyclesCache[i].id : i \in
     {i \in 1..Len(cyclesCache) :
        Cardinality({j \in 1..Len(cyclesCache) :
                       LaterCycle(cyclesCache[j].name, cyclesCache[i].name)})
          = rank}}

\* invocation t's request is the elements request with intervalIds among ids
CarriesInterval(t, ids) ==
  /\ req[t].path = "/v3/elements"
  /\ "intervalIds" \in DOMAIN req[t].params
  /\ req[t].params["intervalIds"] \in ids

CarriesNoInterval(t) ==
  /\ req[t].path = "/v3/elements"
  /\ "intervalIds" \notin DOMAIN req[t].params

\* C8: with two or more cached cycles, all named YYYY-Q#, "current" resolves
\* to the cycle of the greatest (year, quarter), "previous" to the second
\* greatest and "all" to none, in any letter case and whatever the order
\* upstream listed the cycles in; the params branch sends what was resolved
C8_KeywordsResolveByYearAndQuarter ==
  \A t \in Invocations :
    (/\ pc[t] = "querying"
     /\ Len(cyclesCache) >= 2
     /\ \A i \in 1..Len(cyclesCache) : IsPatternName(cyclesCache[i].name)) =>
      LET keyword == ToLowerCase(filter[t].cycle)
          id == ResolveCycleToIntervalId(filter[t].cycle, cyclesCache)
          sent == ~TruthyString(filter[t].searchString)
      IN /\ keyword = StrCurrent =>
              /\ id \in IdsAtRank(0)
              /\ sent => CarriesInterval(t, IdsAtRank(0))
         /\ keyword = StrPrevious =>
              /\ id \in IdsAtRank(1)
              /\ sent => CarriesInterval(t, IdsAtRank(1))
         /\ keyword = StrAll =>
              /\ id = Undefined
              /\ sent => CarriesNoInterval(t)

C8_PreviousOfUnorderedCycles ==
  \E t \in Invocations :
    /\ pc[t] = "querying"
    /\ filter[t].cycle = StrPrevIous
    /\ cyclesCache = CacheEntries(<<IntervalA, IntervalC, IntervalB>>)
    /\ CarriesInterval(t, {NumberToString(IntervalB.id)})

NamedCycle(cycle) ==
  Truthy(cycle) /\ ToLowerCase(cycle) \notin {StrCurrent, StrPrevious, StrAll}

IdsOfCyclesNamed(cycle) ==
  {cyclesCache[i].id : i \in
     {i \in 1..Len(cyclesCache) :
        ToLowerCase(cyclesCache[i].name) = ToLowerCase(cycle)}}

\* C9: a cycle parameter that is no keyword resolves to the id of the cached
\* cycle of that name, ignoring case, and to none when there is no such
\* cycle; then the elements request is still sent, without intervalIds, and
\* its answer is a result
C9_NamedCycleResolvesByName ==
  \A t \in Invocations :
    NamedCycle(filter[t].cycle) =>
      LET id == ResolveCycleToIntervalId(filter[t].cycle, cyclesCache)
          ids == IdsOfCyclesNamed(filter[t].cycle)
          sent == ~TruthyString(filter[t].searchString)
      IN /\ pc[t] = "querying" =>
              IF ids = {}
              THEN id = Undefined /\ CarriesNoInterval(t)
              ELSE id \in ids /\ (sent => CarriesInterval(t, ids))
         /\ (AnsweredFromReply(t) /\ ReadableReply(t) /\ ids = {}) =>
              outcome[t].kind = "result"

C9_UnknownCycleStillAnswered ==
  \E t \in Invocations :
    /\ AnsweredFromReply(t)
    /\ filter[t].cycle = Str2099Q9
    /\ Len(cyclesCache) > 0
    /\ outcome[t].kind = "result"
    /\ Len(outcome[t].okrs) > 0

ParsableDates == {"2023-08-04"}

Unparsable(dateStr) == dateStr # "" /\ dateStr \notin ParsableDates

WithoutField(f, k) == [f EXCEPT ![k] = ""]

\* C10: a date parameter that does not parse is left out of the request,
\* which is sent with every other parameter, and the invocation ends as it
\* would have without that field
C10_UnparsableDateIsDropped ==
  \A t \in Invocations : \A k \in DateFields :
    Unparsable(filter[t][k]) =>
      /\ pc[t] = "querying" =>
           /\ k \notin DOMAIN req[t].params
           /\ req[t] = ElementsRequest(WithoutField(filter[t], k), cyclesCache)
           /\ \A e \in DateFields \ {k} :
                (filter[t][e] \in ParsableDates
                   /\ ~TruthyString(filter[t].searchString)) =>
                  /\ e \in DOMAIN req[t].params
                  /\ req[t].params[e] = "2023-08-04T00:00:00.000Z"
      /\ (pc[t] = "returned" /\ reply[t] # NoReply) =>
           outcome[t] =
             IF reply[t].ok
             THEN SearchOutcome(WithoutField(filter[t], k), reply[t].data,
                                teamsCache)
             ELSE ClassifySearchError(reply[t])

C10_BadDateBesideGoodDate ==
  \E t \in Invocations :
    /\ pc[t] = "querying"
    /\ filter[t].startDateFrom = "not-a-date"
    /\ filter[t].dueDateTo = "2023-08-04"
    /\ DOMAIN req[t].params = {"workspaceIds", "dueDateTo"}

-----------------------------------------------------------------------------
\* Properties of the reading of the elements reply

\* the payload that holds the same elements in the other of the two forms
OtherForm(payload) ==
  [payload EXCEPT !.shape = IF @ = "array" THEN "envelope" ELSE "array"]

\* C11: search returns the same objectives for the bare array E as for the
\* object {data: E}, with and without searchString
C11_ArrayAndEnvelopeGiveSameResult ==
  \A t \in Invocations :
    (AnsweredFromReply(t) /\ ReadableReply(t)) =>
      outcome[t] = SearchOutcome(filter[t], OtherForm(reply[t].data),
                                 teamsCache)

\* C12: a received payload that is neither an array nor an object whose data
\* is an array gives the empty result and no failure, on both paths
C12_MalformedPayloadGivesEmptyResult ==
  \A t \in Invocations :
    (AnsweredFromReply(t) /\ ~ReadableReply(t)) => outcome[t] = Result(<<>>)

\* the elements of typeId 4, in their order
RECURSIVE KeyResultElements(_)
KeyResultElements(elements) ==
  IF elements = <<>> THEN <<>>
  ELSE IF Head(elements).typeId = 4
    THEN <<Head(elements)>> \o KeyResultElements(Tail(elements))
  ELSE KeyResultElements(Tail(elements))

StatusOfValue(n) ==
  IF n >= 70 THEN "On Track" ELSE IF n >= 40 THEN "Behind" ELSE "At Risk"

\* C13: a payload with elements of typeId 4 and none of typeId 1 normalizes
\* to one objective per element of typeId 4, in input order, each with no key
\* results and with status, team and cycle from that element's own fields
C13_KeyResultsAlonePromoted ==
  \A t \in Invocations :
    (AnsweredFromReply(t) /\ ReadableReply(t) /\ ~Truthy(filter[t].team)) =>
      LET elements == ExtractElements(filter[t], reply[t].data).elements
          krs == KeyResultElements(elements)
      IN (Len(krs) > 0 /\ \A i \in 1..Len(elements) : elements[i].typeId # 1)
           => /\ outcome[t].kind = "result"
              /\ Len(outcome[t].okrs) = Len(krs)
              /\ \A i \in 1..Len(krs) :
                   LET okr == outcome[t].okrs[i]
                   IN /\ okr.id = NumberToString(krs[i].id)
                      /\ okr.keyResults = <<>>
                      /\ okr.cycle = krs[i].intervalName
                      /\ okr.team = IF krs[i].groups = <<>> THEN <<>>
                                    ELSE krs[i].groups[1]
                      /\ okr.status = StatusOfValue(krs[i].currentValue)

C13_KeyResultsBesideAnotherElement ==
  \E t \in Invocations :
    /\ AnsweredFromReply(t)
    /\ reply[t].data = [shape |-> "envelope",
                        elements |-> <<ElementLowKR, ElementTask, ElementKR>>]
    /\ filter[t].team = <<>>
    /\ Len(outcome[t].okrs) = 2
    /\ outcome[t].okrs[1].status = "At Risk"
    /\ outcome[t].okrs[2].status = "On Track"

-----------------------------------------------------------------------------
\* Properties of the errors

ClientFailed(t) ==
  /\ pc[t] = "returned"
  /\ clientInitialized
  /\ \/ reply[t] = NoReply
     \/ ~reply[t].ok
     \/ ExtractElements(filter[t], reply[t].data).threw

\* C19: the handler always returns a text: for every failure of the client
\* the message of the error, never its stack, and nothing escapes
C19_HandlerReturnsTheMessage ==
  \A t \in Invocations :
    pc[t] = "returned" =>
      /\ outcome[t].kind \in {"notConnected", "result", "error"}
      /\ ClientFailed(t) =>
           /\ outcome[t].kind = "error"
           /\ outcome[t].error \in
                {"Authentication failed", "Access forbidden",
                 "Resource not found", "Rate limit exceeded",
                 "API request failed", "Failed to search OKRs"}

C19_TypeErrorReturnedAsText ==
  \E t \in Invocations :
    /\ ClientFailed(t)
    /\ reply[t].ok
    /\ outcome[t].kind = "error"
    /\ outcome[t].error = "Failed to search OKRs"

-----------------------------------------------------------------------------
\* Properties of the client's calls

\* getOKR has ended in invocation t
GetOKREnded(t) ==
  pc[t] = "returned" /\ outcome[t].kind \in {"okr", "thrown"}

\* C14: every objective that search or getOKR returns has the status of its
\* grade: On Track from 70, Behind from 40, At Risk below or without a grade,
\* whatever status the upstream element carries
C14_StatusFollowsGrade ==
  \A t \in Invocations :
    pc[t] = "returned" =>
      \A i \in 1..Len(outcome[t].okrs) :
        outcome[t].okrs[i].status =
          IF outcome[t].okrs[i].grade = NoNumber THEN "At Risk"
          ELSE StatusOfValue(outcome[t].okrs[i].grade)

C14_StatusAgainstUpstreamStatus ==
  \E t \in Invocations :
    /\ GetOKREnded(t)
    /\ outcome[t].kind = "okr"
    /\ reply[t].data.element = ElementOps
    /\ ElementOps.status = "On Track"
    /\ outcome[t].okrs[1].grade = 50
    /\ outcome[t].okrs[1].status = "Behind"

\* the error kinds of the client, by the messages that mark them
AuthenticationFailed == {"Authentication failed"}
AccessForbidden == {"Access forbidden"}
NotFound == {"Resource not found", "OKR not found"}
RateLimited == {"Rate limit exceeded"}
UpstreamError == {"API request failed", "Failed to get OKR"}

\* a call of the client ended on an upstream answer with an error status
FailedWithStatus(t) ==
  /\ pc[t] = "returned"
  /\ reply[t] # NoReply
  /\ ~reply[t].ok
  /\ reply[t].status # NoNumber

C17_GetOKRFindsOrNotFound ==
  \A t \in Invocations :
    GetOKREnded(t) =>
      /\ (reply[t].ok /\ reply[t].data.shape = "envelope") =>
           /\ outcome[t].kind = "okr"
           /\ Len(outcome[t].okrs) = 1
           /\ outcome[t].okrs[1].id = NumberToString(reply[t].data.element.id)
      /\ (~reply[t].ok /\ reply[t].status = 404) =>
           /\ outcome[t].kind = "thrown"
           /\ outcome[t].error = "OKR not found"
      /\ outcome[t].kind = "okr" => reply[t].ok
      /\ outcome[t].error = "OKR not found" => ~reply[t].ok

C17_GetOKRNotFound ==
  \E t \in Invocations :
    /\ GetOKREnded(t)
    /\ reply[t] = Failed(404)
    /\ outcome[t].error = "OKR not found"

\* C18: every request in flight, of startup, of a search or of getOKR, is a
\* GET
C18_EveryRequestIsAGet ==
  \A t \in Tasks : req[t] # NoRequest => req[t].method = "GET"

C18_SearchRequestInFlight ==
  \E t \in Invocations :
    /\ pc[t] = "querying"
    /\ req[t].path = "/v3/elements"
    /\ req[t].method = "GET"
    /\ origin.expiry = t

\* invocation t calls loadCyclesAndTeams in this step
CallsLoad(t) ==
  pc[t] = "idle" /\ pc'[t] # "idle" /\ ConnectionPossible

\* C20: with a cacheTTL of 0 every call of loadCyclesAndTeams refreshes: it
\* sends the intervals request, also at the clock value of the refresh before
C20_ZeroTTLAlwaysRefreshes ==
  [][cacheTTL = 0 =>
       \A t \in Invocations :
         CallsLoad(t) =>
           pc'[t] = "fetchCycles" /\ req'[t] = IntervalsRequest]_vars

C20_RefreshAtTheSameClockValue ==
  \E t \in Invocations :
    /\ cacheTTL = 0
    /\ pc[t] = "fetchCycles"
    /\ origin.expiry = Predecessor(t)
    /\ Len(cyclesCache) > 0
    /\ Len(teamsCache) > 0
    /\ startNow[t] = cacheExpiry

-----------------------------------------------------------------------------
\* Properties of the cycle ordering with names outside the pattern

\* the ids of the cached cycles named YYYY-Q#
PatternCycleIds ==
  {cyclesCache[i].id :
     i \in {i \in 1..Len(cyclesCache) : IsPatternName(cyclesCache[i].name)}}

\* C21: in the ordering used for "current" and "previous" no cycle named
\* outside YYYY-Q# stands before one named by the pattern, and "current"
\* resolves to a pattern-named cycle whenever the cache holds one
C21_PatternCyclesComeFirst ==
  \A t \in Invocations :
    (pc[t] = "querying" /\ ToLowerCase(filter[t].cycle) = StrCurrent
       /\ PatternCycleIds # {}) =>
      /\ \A i, j \in 1..Len(cyclesCache) :
           (i < j /\ IsPatternName(SortCycles(cyclesCache)[j].name)) =>
             IsPatternName(SortCycles(cyclesCache)[i].name)
      /\ CarriesInterval(t, PatternCycleIds)

-----------------------------------------------------------------------------
\* Properties of the filter dimensions beside searchString

\* C22: whether or not searchString is set, the elements request carries
\* every date field that parses, under its own name and as an ISO instant,
\* and the id of a cycle that resolves as intervalIds
C22_SearchStringKeepsOtherFilters ==
  \A t \in Invocations :
    pc[t] = "querying" =>
      /\ \A k \in DateFields :
           filter[t][k] \in ParsableDates =>
             /\ k \in DOMAIN req[t].params
             /\ req[t].params[k] = ToISOString(DateGetTime(filter[t][k]))
      /\ Truthy(ResolveCycleToIntervalId(filter[t].cycle, cyclesCache)) =>
           CarriesInterval(
             t, {ResolveCycleToIntervalId(filter[t].cycle, cyclesCache)})

-----------------------------------------------------------------------------
\* Properties of the objectives built from upstream elements

\* the elements of typeId 1, in their order
ObjectiveElements(elements) ==
  LET IsObjective(e) == e.typeId = 1 IN SelectSeq(elements, IsObjective)

\* C23: an objective is produced for an element only if the element has
\* typeId 1, or typeId 4 in a payload without typeId 1; a payload with an
\* element of typeId 1 gives one objective per element of typeId 1 and none
\* for any other element
C23_ObjectivesOnlyFromObjectiveElements ==
  \A t \in Invocations :
    (AnsweredFromReply(t) /\ ReadableReply(t) /\ ~Truthy(filter[t].team)) =>
      LET elements == ExtractElements(filter[t], reply[t].data).elements
          objectives == ObjectiveElements(elements)
      IN /\ \A i \in 1..Len(outcome[t].okrs) :
              \E j \in 1..Len(elements) :
                /\ outcome[t].okrs[i].id = NumberToString(elements[j].id)
                /\ \/ elements[j].typeId = 1
                   \/ elements[j].typeId = 4 /\ Len(objectives) = 0
         /\ Len(objectives) > 0 =>
              /\ Len(outcome[t].okrs) = Len(objectives)
              /\ \A i \in 1..Len(objectives) :
                   outcome[t].okrs[i].id = NumberToString(objectives[i].id)

\* groups[0].name, else teams[0].name, else the empty string
TeamNameOf(element) ==
  IF Len(element.groups) > 0 THEN element.groups[1]
  ELSE IF Len(element.teams) > 0 THEN element.teams[1]
  ELSE <<>>

\* C24: the team of every objective, of a standard search result, of a
\* promoted key result and of getOKR, is groups[0].name of its element when
\* groups is non-empty, else teams[0].name when teams is non-empty, else empty
C24_TeamFromGroupsThenTeams ==
  \A t \in Invocations :
    /\ (AnsweredFromReply(t) /\ outcome[t].kind = "result"
          /\ ~Truthy(filter[t].team)) =>
         LET elements == ExtractElements(filter[t], reply[t].data).elements
             from == IF Len(ObjectiveElements(elements)) = 0
                          /\ Len(KeyResultElements(elements)) > 0
                     THEN KeyResultElements(elements) ELSE elements
         IN \A i \in 1..Len(outcome[t].okrs) :
              outcome[t].okrs[i].team = TeamNameOf(from[i])
    /\ (GetOKREnded(t) /\ outcome[t].kind = "okr") =>
         outcome[t].okrs[1].team = TeamNameOf(reply[t].data.element)

-----------------------------------------------------------------------------
\* Properties of the order of the steps of a search

ClassifiedMessages ==
  {"Authentication failed", "Access forbidden", "Resource not found",
   "Rate limit exceeded", "API request failed"}

\* C25: a search sends its elements request only when its own cache warm step
\* has ended well (the cache was valid, or its own refresh set the expiry),
\* returns a result only from the answered elements request, and after a
\* failure of a lookup or of the elements request sends nothing more and ends
\* in a classified failure
C25_StepsInOrder ==
  [][\A t \in Invocations :
       /\ (pc[t] # "querying" /\ pc'[t] = "querying") =>
            \/ pc[t] = "idle" /\ CacheValid
            \/ pc[t] = "fetchTeams" /\ origin'.expiry = t
       /\ (pc[t] # "returned" /\ pc'[t] = "returned"
             /\ outcome'[t].kind = "result") =>
            pc[t] = "querying" /\ reply'[t].ok
       /\ (pc[t] \in {"fetchCycles", "fetchTeams"} /\ pc'[t] = "returned") =>
            /\ outcome'[t].kind = "error"
            /\ outcome'[t].error \in ClassifiedMessages
            /\ req'[t] = NoRequest
       /\ (pc[t] = "querying" /\ pc'[t] = "returned" /\ ~reply'[t].ok) =>
            /\ outcome'[t].kind = "error"
            /\ outcome'[t].error \in ClassifiedMessages
       /\ pc[t] = "returned" => pc'[t] \in {"returned", "done"}]_vars

C25_FailedAtTheWarmStep ==
  \E t \in Invocations :
    /\ pc[t] = "returned"
    /\ reply[t] = NoReply
    /\ outcome[t].kind = "error"
    /\ outcome[t].error = "API request failed"
    /\ req[t] = NoRequest

-----------------------------------------------------------------------------
\* Properties of getCycles and getTeams

\* the list that the getter of invocation t returns, as the cache holds it
CachedList(t) == IF op[t] = "getCycles" THEN cyclesCache ELSE teamsCache

\* C26: getCycles and getTeams run loadCyclesAndTeams first and return the
\* cache's list: on a valid cache at once and without a request; otherwise
\* after one refresh, one intervals request and one groups request, with the
\* entries the cache holds when that refresh has ended
C26_ListsComeFromTheFreshCache ==
  [][\A t \in Invocations :
       /\ (pc[t] = "idle" /\ op'[t] \in ListMethods) =>
            IF CacheValid
            THEN /\ pc'[t] = "returned"
                 /\ req'[t] = NoRequest
                 /\ outcome'[t].kind = "list"
                 /\ outcome'[t].entries = CachedList(t)'
            ELSE pc'[t] = "fetchCycles" /\ req'[t] = IntervalsRequest
       /\ (op[t] \in ListMethods /\ pc[t] = "fetchCycles") =>
            pc'[t] \in {"fetchCycles", "fetchTeams", "returned"}
       /\ (op[t] \in ListMethods /\ pc[t] = "fetchTeams") =>
            /\ pc'[t] \in {"fetchTeams", "returned"}
            /\ (pc'[t] = "returned" /\ outcome'[t].kind = "list") =>
                 /\ origin'.expiry = t
                 /\ req'[t] = NoRequest
                 /\ outcome'[t].entries = CachedList(t)'
       /\ (op[t] \in ListMethods /\ pc[t] = "returned") =>
            pc'[t] \in {"returned", "done"}]_vars

C26_TeamsListedAfterRefresh ==
  \E t \in Invocations :
    /\ pc[t] = "returned"
    /\ op[t] = "getTeams"
    /\ outcome[t].kind = "list"
    /\ origin.expiry = t
    /\ outcome[t].entries = CacheEntries(<<GroupSales, GroupOps>>)
    /\ outcome[t].entries = teamsCache

-----------------------------------------------------------------------------
\* Properties of the end of a search

\* invocation t has been called and has not returned yet
Running(t) == pc[t] \notin {"idle", "returned", "done"}

\* C27: every search that was called returns, with a result or an error, as
\* long as each of its own requests ends; it needs no step of any other
\* invocation for that
C27_EverySearchEnds ==
  \A t \in Invocations : Running(t) ~> (pc[t] = "returned")

C27_ReturnedBesideARunningSearch ==
  \E t, u \in Invocations :
    /\ pc[t] = "returned"
    /\ outcome[t].kind = "result"
    /\ pc[u] = "fetchCycles"

-----------------------------------------------------------------------------
\* Properties of overlapping refreshes

\* C28: when the refreshes that ran, none of which failed, have all ended,
\* the cycles and the teams of the cache were written by one and the same
\* refresh, and so was the expiry
C28_CacheFromOneRefresh ==
  (/\ \A t \in Tasks : pc[t] \notin {"fetchCycles", "fetchTeams"}
   /\ origin.expiry # NoRefresh) =>
     /\ origin.cycles = origin.teams
     /\ origin.teams = origin.expiry

\* C29: no step makes cacheExpiry smaller
C29_ExpiryNeverDecreases ==
  [][cacheExpiry' >= cacheExpiry]_vars

-----------------------------------------------------------------------------
\* Properties of a failed startup

\* main went on to serve after client.initialize() threw, with the API token
\* and the workspace id both present
StartupFailed ==
  ~Unconfigured /\ pc[Main] = "serving" /\ ~clientInitialized

\* no request is in flight, and what an invocation returned is the
\* "connection not possible" message
NothingAsked ==
  \A t \in Tasks :
    /\ req[t] = NoRequest
    /\ pc[t] \notin {"fetchCycles", "fetchTeams", "querying"}
    /\ (t \in Invocations /\ pc[t] = "returned") => outcome[t] = NotConnected

\* C30: once startup has failed with the configuration present, it stays
\* failed: initialization is not tried again, no invocation sends a request
\* and each one returns the "connection not possible" message
C30_FailedStartupIsFinal ==
  [][StartupFailed => (NothingAsked /\ StartupFailed' /\ NothingAsked')]_vars

C30_LaterInvocationsRejected ==
  /\ StartupFailed
  /\ cyclesCache # <<>>
  /\ \E t \in Invocations :
       /\ pc[Predecessor(t)] = "done"
       /\ pc[t] = "returned"
       /\ outcome[t] = NotConnected

=============================================================================
